---- MODULE Spec2Model ----
(***************************************************************************)
(* State-machine model of the DatePicker of crates/ui/src/time/            *)
(* date_picker.rs: the picker's fields, the calendar entity it owns, the   *)
(* window's focus, the last rendered frame (which decides the listeners    *)
(* that are bound), and the queue of events emitted to subscribers.        *)
(*                                                                         *)
(* Every handler runs to completion on the single UI thread.  Events       *)
(* emitted with cx.emit are queued and delivered to subscribers when the   *)
(* handler has returned (Flush).  cx.notify only schedules a later render  *)
(* (Render); it changes no modelled field.                                 *)
(***************************************************************************)
EXTENDS Integers, Sequences, FiniteSets, TLC

VARIABLES
    date,        \* DatePicker.date
    open,        \* DatePicker.open
    size,        \* DatePicker.size
    cleanable,   \* DatePicker.cleanable (builder configuration)
    presets,     \* DatePicker.presets (builder configuration; <<>> is None)
    calendar,    \* the owned Calendar entity: [date, disabled, size]
    focused,     \* window.focused(cx): the focus handle that holds focus
    frame,       \* the last rendered frame: which listeners it bound
    effects,     \* Change events emitted by the running handler, not yet delivered
    propagated,  \* cx.propagate() was called by the running handler
    n_changes,   \* Change events a subscriber has received
    n_user,      \* user-driven change paths run (selections + presets + clears)
    mode,        \* is_range as passed to new_with_range
    call,        \* the handler that is running or has just returned
    pc,          \* "idle" | "update_date" | "flush"
    ip           \* index of the next statement of update_date (stepwise runs)

vars == <<date, open, size, cleanable, presets, calendar, focused, frame,
          effects, propagated, n_changes, n_user, mode, call, pc, ip>>

(***************************************************************************)
(* Bounds of the model.                                                    *)
(***************************************************************************)
MaxDay == 2
MaxChanges == 2

(***************************************************************************)
(* The Date value: Single(Option<NaiveDate>) or Range(Option, Option).     *)
(***************************************************************************)
None == 0
Days == 1..MaxDay
OptDays == {None} \cup Days

Single(x) == [kind |-> "Single", start |-> x, end |-> None]
Range(a, b) == [kind |-> "Range", start |-> a, end |-> b]

Dates == {Single(x) : x \in OptDays} \cup {Range(a, b) : a \in OptDays, b \in OptDays}

\* Date::is_some: true if any inner date is present.
is_some(d) == d.start # None \/ d.end # None

\* Variant of empty_date: is_range is ignored.
empty_date_single(is_range) == Single(None)

\* The starting date of new_with_range(is_range).
empty_date(is_range) == IF is_range THEN Range(None, None) ELSE Single(None)

(***************************************************************************)
(* Presets: DateRangePresetValue::Single(d) | Range(start, end).           *)
(***************************************************************************)
PresetSingle(d) == [kind |-> "Single", start |-> d, end |-> None]
PresetRange(s, e) == [kind |-> "Range", start |-> s, end |-> e]

\* The preset lists a host may configure: none, or a single, an inverted and
\* an ordered range preset.
PresetLists == {<<>>, <<PresetSingle(1), PresetRange(MaxDay, 1), PresetRange(1, MaxDay)>>}

(***************************************************************************)
(* Sizes, matchers, focus handles.                                         *)
(***************************************************************************)
DefaultSize == "Medium"
Sizes == {"Medium", "Small"}
NoMatcher == "none"
Matchers == {"weekends"}

\* Focus handles of the window: the picker's own handle ("field"), a
\* container above it, the calendar inside the popover below it, and an
\* unrelated focusable element.  "none" means nothing is focused.
NoFocus == "none"
FocusIds == {"container", "field", "calendar", "other"}

focus_parent(h) ==
    CASE h = "field" -> "container"
      [] h = "calendar" -> "field"
      [] OTHER -> NoFocus

\* FocusHandle::contains: a contains b iff b is a or a descendant of a.
contains(a, b) ==
    \/ a = b
    \/ focus_parent(b) = a
    \/ focus_parent(focus_parent(b)) = a

\* FocusHandle::contains_focused
contains_focused(h, w) == w.focused # NoFocus /\ contains(h, w.focused)

(***************************************************************************)
(* The calendar entity, as far as the picker uses it.                      *)
(***************************************************************************)
Calendar_new == [date |-> Single(None), disabled |-> NoMatcher, size |-> DefaultSize]
Calendar_set_date(c, d) == [c EXCEPT !.date = d]
Calendar_set_disabled(c, m) == [c EXCEPT !.disabled = m]
Calendar_set_size(c, s) == [c EXCEPT !.size = s]

(***************************************************************************)
(* The mutable state a handler works on, as one record.                    *)
(***************************************************************************)
World ==
    [date |-> date, open |-> open, size |-> size, calendar |-> calendar,
     focused |-> focused, effects |-> effects, propagated |-> propagated]

Commit(w) ==
    /\ date' = w.date
    /\ open' = w.open
    /\ size' = w.size
    /\ calendar' = w.calendar
    /\ focused' = w.focused
    /\ effects' = w.effects
    /\ propagated' = w.propagated

\* self.focus_handle.focus(window)
focus_handle_focus(w) == [w EXCEPT !.focused = "field"]

(***************************************************************************)
(* update_date: its statements in program order, and the execution of one. *)
(***************************************************************************)
\* Variants of update_date_body: the event emitted before the popover is
\* closed; the calendar left unsynchronised.
update_date_body_emit_first == <<"date", "calendar", "emit", "open">>
update_date_body_no_calendar == <<"date", "open", "emit">>

\* Variant of update_date_body: the popover is not closed.
update_date_body_no_close == <<"date", "calendar", "emit">>

update_date_body == <<"date", "calendar", "open", "emit">>

\* Variants of Exec: the popover is left as it is; the calendar is not told.
Exec_keeps_open(stmt, w, d, emit) ==
    CASE stmt = "date" -> [w EXCEPT !.date = d]
      [] stmt = "calendar" -> [w EXCEPT !.calendar = Calendar_set_date(@, d)]
      [] stmt = "open" -> w
      [] stmt = "emit" -> IF emit THEN [w EXCEPT !.effects = Append(@, d)] ELSE w

Exec_stale_calendar(stmt, w, d, emit) ==
    CASE stmt = "date" -> [w EXCEPT !.date = d]
      [] stmt = "calendar" -> w
      [] stmt = "open" -> [w EXCEPT !.open = FALSE]
      [] stmt = "emit" -> IF emit THEN [w EXCEPT !.effects = Append(@, d)] ELSE w

\* Variant of Exec: an inverted range is stored with its ends swapped.
sorted_range(d) ==
    IF d.kind = "Range" /\ d.start # None /\ d.end # None /\ d.end < d.start
    THEN Range(d.end, d.start) ELSE d

Exec_sorted_range(stmt, w, d, emit) ==
    CASE stmt = "date" -> [w EXCEPT !.date = sorted_range(d)]
      [] stmt = "calendar" -> [w EXCEPT !.calendar = Calendar_set_date(@, d)]
      [] stmt = "open" -> [w EXCEPT !.open = FALSE]
      [] stmt = "emit" -> IF emit THEN [w EXCEPT !.effects = Append(@, d)] ELSE w

Exec(stmt, w, d, emit) ==
    CASE stmt = "date" -> [w EXCEPT !.date = d]
      [] stmt = "calendar" -> [w EXCEPT !.calendar = Calendar_set_date(@, d)]
      [] stmt = "open" -> [w EXCEPT !.open = FALSE]
      [] stmt = "emit" -> IF emit THEN [w EXCEPT !.effects = Append(@, d)] ELSE w

RECURSIVE RunBody(_, _, _, _, _)
RunBody(body, i, w, d, emit) ==
    IF i > Len(body) THEN w
    ELSE RunBody(body, i + 1, Exec(body[i], w, d, emit), d, emit)

update_date(w, d, emit) == RunBody(update_date_body, 1, w, d, emit)

\* Variant of set_date: the programmatic setter notifies.
set_date_emitting(w, d) == update_date(w, d, TRUE)

set_date(w, d) == update_date(w, d, FALSE)

\* Variant of handler_tail: the field is not focused after a selection.
handler_tail_no_focus(op, w) == w

\* What the calendar subscription does after update_date has returned.
handler_tail(op, w) == IF op = "selected" THEN focus_handle_focus(w) ELSE w

\* The subscription to CalendarEvent::Selected(d).
on_calendar_selected(w, d) == handler_tail("selected", update_date(w, d, TRUE))

set_disabled(w, m) == [w EXCEPT !.calendar = Calendar_set_disabled(@, m)]

\* Variant of set_size: the popover is closed as update_date does.
set_size_closes(w, s) == [w EXCEPT !.size = s, !.open = FALSE]

set_size(w, s) == [w EXCEPT !.size = s]

\* Variant of focus_back_if_need: focus is pulled back when the focused
\* handle lies inside the field's subtree.
focus_back_if_within_field(w) ==
    IF ~w.open THEN w
    ELSE IF w.focused # NoFocus /\ contains("field", w.focused)
         THEN focus_handle_focus(w)
         ELSE w

focus_back_if_need(w) ==
    IF ~w.open THEN w
    ELSE IF w.focused # NoFocus /\ contains(w.focused, "field")
         THEN focus_handle_focus(w)
         ELSE w

\* Variants of escape: the action is never propagated; always propagated.
escape_never_propagates(w) ==
    LET w2 == focus_back_if_need(w)
    IN  [w2 EXCEPT !.open = FALSE]

escape_always_propagates(w) ==
    LET w1 == [w EXCEPT !.propagated = TRUE]
        w2 == focus_back_if_need(w1)
    IN  [w2 EXCEPT !.open = FALSE]

\* Variant of escape: the popover is toggled instead of closed.
escape_toggles(w) ==
    LET w1 == IF ~w.open THEN [w EXCEPT !.propagated = TRUE] ELSE w
        w2 == focus_back_if_need(w1)
    IN  [w2 EXCEPT !.open = ~w.open]

escape(w) ==
    LET w1 == IF ~w.open THEN [w EXCEPT !.propagated = TRUE] ELSE w
        w2 == focus_back_if_need(w1)
    IN  [w2 EXCEPT !.open = FALSE]

\* Variant of clean_value: the variant held is forgotten.
clean_value_single(d) == Single(None)

\* The value clean passes to update_date.
clean_value(d) == IF d.kind = "Single" THEN Single(None) ELSE Range(None, None)

\* Variant of clean: the clear is not notified.
clean_silent(w) == update_date(w, clean_value(w.date), FALSE)

clean(w) == update_date(w, clean_value(w.date), TRUE)

toggle_calendar(w) == [w EXCEPT !.open = ~w.open]

\* The value select_preset passes to update_date.
preset_value(p) ==
    IF p.kind = "Single" THEN Single(p.start) ELSE Range(p.start, p.end)

\* Variant of select_preset: the pick is not notified.
select_preset_silent(w, p) == update_date(w, preset_value(p), FALSE)

select_preset(w, p) == update_date(w, preset_value(p), TRUE)

(***************************************************************************)
(* render: the listeners a frame binds, and the calendar settings it       *)
(* pushes.                                                                 *)
(***************************************************************************)
NoFrame == [rendered |-> FALSE, open |-> FALSE, show_clean |-> FALSE]

\* Variant of render_frame: the clear button is shown whenever a date is set.
render_frame_ignores_cleanable(w, cl) ==
    [rendered |-> TRUE, open |-> w.open, show_clean |-> is_some(w.date)]

render_frame(w, cl) ==
    [rendered |-> TRUE, open |-> w.open, show_clean |-> cl /\ is_some(w.date)]

render(w) == [w EXCEPT !.calendar = Calendar_set_size(@, w.size)]

\* A click on the clear button reaches the field's own click listener too.
clear_click_bubbles == FALSE

bound_escape_action(f) == f.rendered /\ f.open
\* Variant of bound_toggle_calendar: the field's click listener is always bound.
bound_toggle_calendar_always(f) == f.rendered

bound_toggle_calendar(f) == f.rendered /\ ~f.open
bound_clean(f) == f.rendered /\ f.show_clean
bound_popover(f) == f.rendered /\ f.open

(***************************************************************************)
(* Initial state: the picker as new / range_picker and the builder calls   *)
(* leave it, before the first frame.                                       *)
(***************************************************************************)
NoArg == [kind |-> "-", start |-> None, end |-> None]
NoCall == [op |-> "none", arg |-> NoArg, emit |-> FALSE]

Init ==
    /\ mode \in BOOLEAN
    /\ cleanable \in BOOLEAN
    /\ presets \in PresetLists
    /\ date = empty_date(mode)
    /\ calendar = Calendar_set_date(Calendar_new, empty_date(mode))
    /\ open = FALSE
    /\ size = DefaultSize
    /\ focused = NoFocus
    /\ frame = NoFrame
    /\ effects = <<>>
    /\ propagated = FALSE
    /\ n_changes = 0
    /\ n_user = 0
    /\ call = NoCall
    /\ pc = "idle"
    /\ ip = 0

(***************************************************************************)
(* Actions: one per handler, run to completion.                            *)
(***************************************************************************)
Config == <<cleanable, presets, mode>>

Handled(op, arg, emit, w) ==
    /\ Commit(w)
    /\ call' = [op |-> op, arg |-> arg, emit |-> emit]
    /\ pc' = "flush"
    /\ UNCHANGED <<Config, frame, n_changes, ip>>

Render ==
    /\ pc = "idle"
    /\ \/ frame # render_frame(World, cleanable)
       \/ calendar.size # size
    /\ frame' = render_frame(World, cleanable)
    /\ Commit(render(World))
    /\ UNCHANGED <<Config, n_changes, n_user, call, pc, ip>>

\* The user or the host moves focus.
FocusChange ==
    /\ pc = "idle"
    /\ \E h \in FocusIds \cup {NoFocus} :
        /\ h # focused
        /\ focused' = h
    /\ UNCHANGED <<date, open, size, calendar, effects, propagated, Config,
                   frame, n_changes, n_user, call, pc, ip>>

SetDate ==
    /\ pc = "idle"
    /\ \E m \in Dates : Handled("set_date", m, FALSE, set_date(World, m))
    /\ UNCHANGED n_user

SetDisabled ==
    /\ pc = "idle"
    /\ \E m \in Matchers \cup {NoMatcher} :
        /\ m # calendar.disabled
        /\ Handled("set_disabled", NoArg, FALSE, set_disabled(World, m))
    /\ UNCHANGED n_user

SetSize ==
    /\ pc = "idle"
    /\ \E s \in Sizes :
        /\ s # size
        /\ Handled("set_size", NoArg, FALSE, set_size(World, s))
    /\ UNCHANGED n_user

CalendarSelected ==
    /\ pc = "idle"
    /\ bound_popover(frame)
    /\ n_user < MaxChanges
    /\ \E d \in Dates : Handled("selected", d, TRUE, on_calendar_selected(World, d))
    /\ n_user' = n_user + 1

KeyCancel ==
    /\ pc = "idle"
    /\ bound_escape_action(frame)
    /\ contains_focused("field", World)
    /\ Handled("escape_key", NoArg, FALSE, escape(World))
    /\ UNCHANGED n_user

MouseUpOut ==
    /\ pc = "idle"
    /\ bound_popover(frame)
    /\ Handled("escape_mouse", NoArg, FALSE, escape(World))
    /\ UNCHANGED n_user

ClickField ==
    /\ pc = "idle"
    /\ bound_toggle_calendar(frame)
    /\ Handled("toggle_calendar", NoArg, FALSE, toggle_calendar(World))
    /\ UNCHANGED n_user

ClickClear ==
    /\ pc = "idle"
    /\ bound_clean(frame)
    /\ n_user < MaxChanges
    /\ LET w1 == clean(World)
           w2 == IF clear_click_bubbles /\ bound_toggle_calendar(frame)
                 THEN toggle_calendar(w1) ELSE w1
       IN  Handled("clean", clean_value(date), TRUE, w2)
    /\ n_user' = n_user + 1

ClickPreset ==
    /\ pc = "idle"
    /\ bound_popover(frame)
    /\ n_user < MaxChanges
    /\ \E i \in DOMAIN presets :
        Handled("select_preset", preset_value(presets[i]), TRUE,
                select_preset(World, presets[i]))
    /\ n_user' = n_user + 1

\* The handler has returned: queued events reach the subscribers.
Flush ==
    /\ pc = "flush"
    /\ n_changes' = n_changes + Len(effects)
    /\ effects' = <<>>
    /\ propagated' = FALSE
    /\ call' = NoCall
    /\ pc' = "idle"
    /\ UNCHANGED <<date, open, size, calendar, focused, Config, frame, n_user, ip>>

Next ==
    \/ Render
    \/ FocusChange
    \/ SetDate
    \/ SetDisabled
    \/ SetSize
    \/ CalendarSelected
    \/ KeyCancel
    \/ MouseUpOut
    \/ ClickField
    \/ ClickClear
    \/ ClickPreset
    \/ Flush

Spec == Init /\ [][Next]_vars

(***************************************************************************)
(* The same handlers with update_date run one statement at a time: the     *)
(* caller enters update_date, each step executes the next statement of     *)
(* update_date_body, and the return runs the rest of the caller.           *)
(***************************************************************************)
Enter(op, arg, emit) ==
    /\ call' = [op |-> op, arg |-> arg, emit |-> emit]
    /\ pc' = "update_date"
    /\ ip' = 1
    /\ UNCHANGED <<date, open, size, calendar, focused, effects, propagated,
                   Config, frame, n_changes>>

EnterSetDate ==
    /\ pc = "idle"
    /\ \E m \in Dates : Enter("set_date", m, FALSE)
    /\ UNCHANGED n_user

EnterCalendarSelected ==
    /\ pc = "idle"
    /\ bound_popover(frame)
    /\ n_user < MaxChanges
    /\ \E d \in Dates : Enter("selected", d, TRUE)
    /\ n_user' = n_user + 1

EnterClean ==
    /\ pc = "idle"
    /\ bound_clean(frame)
    /\ n_user < MaxChanges
    /\ Enter("clean", clean_value(date), TRUE)
    /\ n_user' = n_user + 1

EnterSelectPreset ==
    /\ pc = "idle"
    /\ bound_popover(frame)
    /\ n_user < MaxChanges
    /\ \E i \in DOMAIN presets : Enter("select_preset", preset_value(presets[i]), TRUE)
    /\ n_user' = n_user + 1

StepUpdateDate ==
    /\ pc = "update_date"
    /\ ip <= Len(update_date_body)
    /\ Commit(Exec(update_date_body[ip], World, call.arg, call.emit))
    /\ ip' = ip + 1
    /\ UNCHANGED <<Config, frame, n_changes, n_user, call, pc>>

ReturnUpdateDate ==
    /\ pc = "update_date"
    /\ ip > Len(update_date_body)
    /\ Commit(handler_tail(call.op, World))
    /\ pc' = "flush"
    /\ ip' = 0
    /\ UNCHANGED <<Config, frame, n_changes, n_user, call>>

NextSteps ==
    \/ Render
    \/ FocusChange
    \/ ClickField
    \/ EnterSetDate
    \/ EnterCalendarSelected
    \/ EnterClean
    \/ EnterSelectPreset
    \/ StepUpdateDate
    \/ ReturnUpdateDate
    \/ Flush

SpecSteps == Init /\ [][NextSteps]_vars

(***************************************************************************)
(* Vocabulary of the properties.                                           *)
(***************************************************************************)
UserOps == {"selected", "select_preset", "clean"}
EscapeOps == {"escape_key", "escape_mouse"}

\* The handler op runs in this step (run to completion).
HandlerStep(op) == pc = "idle" /\ pc' = "flush" /\ call'.op = op

\* The handler op has returned and its events are about to be delivered.
Returned(op) == pc = "flush" /\ call.op = op

\* escape runs in this step, from the cancel action or the outside mouse-up.
EscapeStep == HandlerStep("escape_key") \/ HandlerStep("escape_mouse")

\* This step delivers the queued events of handler op.
FlushStep(op) == pc = "flush" /\ pc' = "idle" /\ call.op = op

\* This step executes statement stmt of update_date.
StmtStep(stmt) ==
    /\ pc = "update_date"
    /\ ip \in DOMAIN update_date_body
    /\ update_date_body[ip] = stmt
    /\ ip' = ip + 1

\* C1: set_date(m) emits no Change: it queues no event, and the number of
\* Change events a subscriber has received is the same after the call has
\* been handled as before, for every m and every state it is called in.
C1_SetDateSilent ==
    [][ /\ HandlerStep("set_date") => effects' = <<>>
        /\ FlushStep("set_date") => n_changes' = n_changes ]_vars

C1_Witness ==
    /\ Returned("set_date")
    /\ is_some(date)
    /\ frame.open
    /\ n_changes > 0

\* C2: a Change is emitted exactly when a user-driven change path runs: a
\* calendar selection, a preset pick and a clear each queue exactly one
\* Change carrying the new date, every other step queues none, delivery
\* hands over exactly what was queued, and the Changes emitted so far number
\* the selections + preset picks + clears run so far.
C2_ChangeIffUserDriven ==
    /\ [](n_changes + Len(effects) = n_user)
    /\ [][ /\ pc = "idle" =>
                effects' = IF pc' = "flush" /\ call'.op \in UserOps
                           THEN <<date'>> ELSE <<>>
           /\ pc = "flush" => n_changes' = n_changes + Len(effects) ]_vars

C2_Witness ==
    /\ Returned("escape_mouse")
    /\ n_changes >= 2
    /\ n_user = n_changes

\* C3: after the picker has handled Selected(d): date = d, the popover is
\* closed, the calendar's date is d, and exactly one Change(d) was emitted
\* for the event (and is delivered once).
C3_SelectedCommits ==
    [][ /\ HandlerStep("selected") =>
            /\ date' = call'.arg
            /\ ~open'
            /\ calendar'.date = call'.arg
            /\ effects' = <<call'.arg>>
        /\ FlushStep("selected") => n_changes' = n_changes + 1 ]_vars

C3_Witness ==
    /\ Returned("selected")
    /\ call.arg = Range(MaxDay, None)
    /\ date = call.arg
    /\ effects = <<call.arg>>

C5_UpdateDateOrder ==
    [][ /\ StmtStep("open") => (date = call.arg /\ calendar.date = call.arg)
        /\ StmtStep("emit") =>
            (~open /\ date = call.arg /\ calendar.date = call.arg)
        /\ (pc = "flush" /\ pc' = "idle") =>
            \A i \in DOMAIN effects : ~open /\ date = effects[i] ]_vars

C5_Witness ==
    /\ pc = "update_date"
    /\ ip \in DOMAIN update_date_body
    /\ update_date_body[ip] = "open"
    /\ call.emit
    /\ open
    /\ date = call.arg

\* C6: the calendar's date equals the picker's date at construction and
\* after every handler: set_date, selection, preset pick and clear set both,
\* and escape, the outside mouse-up, the field click, set_size and
\* set_disabled change neither.
C6_CalendarInSync == calendar.date = date

C6_Witness ==
    /\ Returned("set_date")
    /\ date = Range(None, MaxDay)
    /\ calendar.date = date
    /\ calendar.disabled # NoMatcher
    /\ size # DefaultSize

\* C7: clean resets the date to the empty form of the variant held (Single(_)
\* to Single(None), Range(_, _) to Range(None, None)), never switches the
\* variant, and emits one Change carrying that empty value.
C7_CleanResets ==
    [][ HandlerStep("clean") =>
            /\ date.kind = "Single" => date' = Single(None)
            /\ date.kind = "Range" => date' = Range(None, None)
            /\ date'.kind = date.kind
            /\ effects' = <<date'>> ]_vars

C7_Witness ==
    /\ Returned("clean")
    /\ date = Range(None, None)
    /\ effects = <<Range(None, None)>>

\* C8: escape run while the popover is closed changes no local state (date,
\* open, calendar and focus are as before, no Change is emitted) and
\* propagates the action.
C8_EscapeClosed ==
    [][ /\ (EscapeStep /\ ~open) =>
            /\ UNCHANGED <<date, open, calendar, focused, size>>
            /\ effects' = <<>>
            /\ propagated'
        /\ (pc = "flush" /\ call.op \in EscapeOps) => n_changes' = n_changes ]_vars

C8_Witness ==
    /\ pc = "flush"
    /\ call.op \in EscapeOps
    /\ propagated
    /\ ~open
    /\ is_some(date)

\* C9: escape run while the popover is open, from the cancel action or from
\* the outside mouse-up, closes the popover, leaves the date and the
\* calendar's date as they were, emits no Change and does not propagate.
C9_EscapeOpen ==
    [][ (EscapeStep /\ open) =>
            /\ ~open'
            /\ date' = date
            /\ calendar' = calendar
            /\ effects' = <<>>
            /\ ~propagated' ]_vars

C9_Witness ==
    /\ Returned("escape_key")
    /\ ~propagated
    /\ ~open
    /\ is_some(date)

\* C10 as stated: when escape closes the open popover, focus moves only if
\* the focused handle lies within the field's subtree; focus elsewhere, or
\* no focus, is left where it was.
C10_FocusBackOnlyFromWithin ==
    [][ (EscapeStep /\ open) =>
            (focused' # focused =>
                (focused # NoFocus /\ contains("field", focused))) ]_vars

\* C10 amended: when escape closes the open popover, focus moves to the
\* field exactly when the focused handle contains the field's handle (it is
\* the field itself or a container above it); from a handle below the field,
\* an unrelated handle or no focus, focus is left where it was.
C10_FocusBackFromContainer ==
    [][ (EscapeStep /\ open) =>
            focused' = IF focused \in {"field", "container"}
                       THEN "field" ELSE focused ]_vars

C10_Witness ==
    /\ Returned("escape_mouse")
    /\ ~propagated
    /\ focused = "calendar"

\* The Date a preset stands for, and the steps that store a supplied Date.
PresetDate(p) ==
    IF p.kind = "Single" THEN Single(p.start) ELSE Range(p.start, p.end)

SupplyOps == {"set_date", "selected", "select_preset"}

\* C11 as stated: date is always of the variant chosen at construction.
C11_VariantFixed == date.kind = (IF mode THEN "Range" ELSE "Single")

\* C11 amended: construction fixes only the starting value (Single(None)
\* for new, Range(None, None) for range_picker); afterwards date has the
\* variant of the value last supplied by set_date, a calendar selection or
\* a preset pick, clean keeps the variant held, and nothing else changes
\* the date.
C11_VariantFollowsValue ==
    /\ date = (IF mode THEN Range(None, None) ELSE Single(None))
    /\ [][ /\ (pc = "idle" /\ pc' = "flush" /\ call'.op \in SupplyOps) =>
                date'.kind = call'.arg.kind
           /\ HandlerStep("clean") => date'.kind = date.kind
           /\ date' # date =>
                (pc = "idle" /\ pc' = "flush"
                    /\ call'.op \in SupplyOps \cup {"clean"}) ]_vars

C11_Witness ==
    /\ Returned("select_preset")
    /\ ~mode
    /\ date.kind = "Range"

\* C12: select_preset(p) makes the preset's value the date (Single(x) gives
\* Single(Some(x)), Range(s, e) gives Range(Some(s), Some(e))), closes the
\* popover, records exactly one Change with that value, and leaves the
\* preset list as it was.
C12_PresetApplied ==
    [][ /\ HandlerStep("select_preset") =>
            /\ \E i \in DOMAIN presets : date' = PresetDate(presets[i])
            /\ ~open'
            /\ effects' = <<date'>>
            /\ presets' = presets
        /\ FlushStep("select_preset") =>
            (n_changes' = n_changes + 1 /\ presets' = presets) ]_vars

C12_Witness ==
    /\ Returned("select_preset")
    /\ date = Single(1)
    /\ effects = <<Single(1)>>
    /\ mode

\* C13: range ordering is not validated: set_date(Range(a, b)) and
\* select_preset with Range(a, b) store the value as given, inverted and
\* partial ranges included, push the same value to the calendar, and an
\* emitted Change carries the same value.
C13_RangeStoredAsGiven ==
    [][ /\ HandlerStep("set_date") =>
            (date' = call'.arg /\ calendar'.date = call'.arg)
        /\ HandlerStep("select_preset") =>
            \E i \in DOMAIN presets :
                /\ date' = PresetDate(presets[i])
                /\ calendar'.date = PresetDate(presets[i])
                /\ effects' = <<PresetDate(presets[i])>> ]_vars

C13_Witness ==
    /\ Returned("select_preset")
    /\ MaxDay > 1
    /\ date = Range(MaxDay, 1)
    /\ calendar.date = Range(MaxDay, 1)
    /\ effects = <<Range(MaxDay, 1)>>

\* C14: a rendered frame offers the clear button exactly when the picker is
\* cleanable and its date is set; clean runs only from such a frame, so
\* never while cleanable is false.
C14_ClearOfferedIffCleanableAndSet ==
    /\ [](frame.show_clean => cleanable)
    /\ [][ /\ frame' # frame =>
                (frame'.show_clean <=>
                    (cleanable /\ date \notin {Single(None), Range(None, None)}))
           /\ HandlerStep("clean") => (cleanable /\ frame.show_clean) ]_vars

C14_Witness ==
    /\ pc = "idle"
    /\ frame.show_clean
    /\ cleanable
    /\ date = Range(None, MaxDay)
    /\ frame.open = open

\* The handlers that go through update_date.
DateOps == SupplyOps \cup {"clean"}

\* C15 as stated: a field click only ever opens the popover from Closed,
\* and the popover closes only through escape, an outside mouse-up or a
\* date mutation.
C15_FieldClickOnlyOpens ==
    [][ /\ HandlerStep("toggle_calendar") => (~open /\ open')
        /\ (open /\ ~open') => call'.op \in EscapeOps \cup DateOps ]_vars

\* C15 amended: toggle_calendar is bound only in frames rendered with the
\* popover closed; it flips open, changes no date and emits nothing; on a
\* frame that shows the current state it opens the popover; the popover
\* closes only through escape, an outside mouse-up, a date mutation, or a
\* field click dispatched on a frame rendered before the popover opened.
C15_ToggleBoundWhenRenderedClosed ==
    [][ /\ HandlerStep("toggle_calendar") =>
            /\ frame.rendered /\ ~frame.open
            /\ open' = ~open
            /\ date' = date
            /\ calendar' = calendar
            /\ effects' = <<>>
            /\ frame.open = open => open'
        /\ (open /\ ~open') =>
            \/ call'.op \in EscapeOps \cup DateOps
            \/ (call'.op = "toggle_calendar" /\ ~frame.open) ]_vars

C15_Witness ==
    /\ Returned("toggle_calendar")
    /\ frame.rendered
    /\ ~frame.open
    /\ open
    /\ is_some(date)

\* C16: the calendar subscription focuses the field whatever held focus
\* before, and does so after update_date has written the date, closed the
\* popover and emitted the Change; update_date itself moves no focus.
C16_FocusAfterUpdateDate ==
    [][ (pc = "update_date" /\ call.op = "selected") =>
            IF pc' = "flush"
            THEN /\ focused' = "field"
                 /\ date = call.arg
                 /\ ~open
                 /\ effects = <<call.arg>>
            ELSE focused' = focused ]_vars

C16_Witness ==
    /\ pc = "update_date"
    /\ call.op = "selected"
    /\ ip > Len(update_date_body)
    /\ focused = "other"
    /\ effects = <<call.arg>>

\* C17: set_disabled changes only the calendar's matcher (date, open, size,
\* focus and the calendar's date and size stay), set_size changes only
\* size, and neither emits a Change.
C17_SettersFrame ==
    [][ /\ HandlerStep("set_disabled") =>
            /\ UNCHANGED <<date, open, size, focused>>
            /\ calendar'.date = calendar.date
            /\ calendar'.size = calendar.size
            /\ effects' = <<>>
        /\ HandlerStep("set_size") =>
            /\ UNCHANGED <<date, open, calendar, focused>>
            /\ effects' = <<>>
        /\ (FlushStep("set_disabled") \/ FlushStep("set_size")) =>
            n_changes' = n_changes ]_vars

C17_Witness ==
    /\ Returned("set_size")
    /\ open
    /\ is_some(date)
    /\ size # DefaultSize
    /\ calendar.size = DefaultSize

\* C18: set_date(m) called while the popover is open closes it: afterwards
\* open = FALSE and date = m, no Change was emitted and focus was not moved.
C18_SetDateClosesOpenPopover ==
    [][ (pc = "update_date" /\ call.op = "set_date") =>
            /\ focused' = focused
            /\ effects' = <<>>
            /\ ~propagated'
            /\ pc' = "flush" => (~open' /\ date' = call.arg) ]_vars

C18_Witness ==
    /\ pc = "update_date"
    /\ call.op = "set_date"
    /\ ip \in DOMAIN update_date_body
    /\ update_date_body[ip] = "open"
    /\ open
    /\ date = call.arg
    /\ focused = "calendar"

\* C19: the popover starts closed, and open goes from false to true only in
\* toggle_calendar: no set_date, selection, preset pick, clear, escape,
\* outside mouse-up, setter or render opens it.
C19_OnlyToggleOpens ==
    /\ ~open
    /\ [][ (~open /\ open') => HandlerStep("toggle_calendar") ]_vars

C19_Witness ==
    /\ Returned("toggle_calendar")
    /\ open
    /\ n_changes > 0
    /\ ~is_some(date)

====
